---- MODULE Spec2Model ----
(***************************************************************************)
(* A model of the BMP codec of src/src/lib.rs: the three header value      *)
(* objects, the Image entity with its pixel accessors, the encoder (save)  *)
(* and the decoder (open).                                                 *)
(*                                                                         *)
(* Number representation.  An i32 is the integer itself.  A u32 is carried  *)
(* as its 32-bit pattern read as a two's complement integer, so 0xFFFFFFFF *)
(* is written -1; casts between i32 and u32 keep the pattern, and products *)
(* and sums wrap with MulWrap32 and AddWrap32.  The pointer-sized uint has *)
(* 64 bits and is carried as its eight bytes, low first: AsUint is the     *)
(* cast of an i32 (sign extension), Uint the value of a coordinate, and    *)
(* U64Mul, U64Add and U64Lt are the wrapping product, the wrapping sum and *)
(* the comparison.  A file is a sequence of bytes; a file position p       *)
(* (0-based) addresses byte f[p + 1].                                      *)
(***************************************************************************)
EXTENDS Integers, Sequences, FiniteSets, TLC

VARIABLES
    img,      \* the Image value the caller holds: Some(image), or None
    disk,     \* the bytes of the file at the path used by save and open
    outcome,  \* how the last call ended: "ok" or the failure it ended in
    ret,      \* what the last call returned: Some(pixel), Some(image), or None
    io,       \* bytes read and seeks done by the call, when it was an open
    lastop,   \* the last call and its arguments
    shadow,   \* history: the grid assigned through set_pixel since new
    saved,    \* history: the image whose save produced disk
    sz        \* size bookkeeping of new + save for one pair of dimensions

vars == <<img, disk, outcome, ret, io, lastop, shadow, saved, sz>>

----------------------------------------------------------------------------
(* Bounds of the model. *)

MaxW == 3
MaxH == 2
MaxPixels == 4
MaxSizeW == 16
MaxSizeH == 4

----------------------------------------------------------------------------
(* Fixed-width arithmetic. *)

Byte == 0 .. 255

\* write_le_u32 / write_le_i32: the four bytes of a 32-bit pattern, low first.
Le32(v) ==
    << v % 256, (v \div 256) % 256, (v \div 65536) % 256, (v \div 16777216) % 256 >>

\* write_le_u16: the two bytes of a 16-bit value, low first.
Le16(v) == << v % 256, (v \div 256) % 256 >>

\* read_le_u32 / read_le_i32 on four bytes: the pattern as a two's complement integer.
FromLe32(b) ==
    b[1] + 256 * b[2] + 65536 * b[3]
      + 16777216 * (IF b[4] >= 128 THEN b[4] - 256 ELSE b[4])

\* read_le_u16 on two bytes.
FromLe16(b) == b[1] + 256 * b[2]

\* a * b modulo 2^32, on patterns (schoolbook product of the byte limbs).
MulWrap32(a, b) ==
    LET x  == Le32(a)
        y  == Le32(b)
        c1 == x[1] * y[1]
        c2 == x[1] * y[2] + x[2] * y[1] + (c1 \div 256)
        c3 == x[1] * y[3] + x[2] * y[2] + x[3] * y[1] + (c2 \div 256)
        c4 == x[1] * y[4] + x[2] * y[3] + x[3] * y[2] + x[4] * y[1] + (c3 \div 256)
    IN  FromLe32(<< c1 % 256, c2 % 256, c3 % 256, c4 % 256 >>)

\* a + b modulo 2^32, on patterns.
AddWrap32(a, b) ==
    LET x  == Le32(a)
        y  == Le32(b)
        c1 == x[1] + y[1]
        c2 == x[2] + y[2] + (c1 \div 256)
        c3 == x[3] + y[3] + (c2 \div 256)
        c4 == x[4] + y[4] + (c3 \div 256)
    IN  FromLe32(<< c1 % 256, c2 % 256, c3 % 256, c4 % 256 >>)

\* `v as uint` for an i32 v: the sign-extended value, as eight bytes.
AsUint(v) ==
    Le32(v) \o (IF v < 0 THEN << 255, 255, 255, 255 >> ELSE << 0, 0, 0, 0 >>)

\* A uint below 2^31 (a coordinate, a vector length), as eight bytes.
Uint(n) == Le32(n) \o << 0, 0, 0, 0 >>

\* a * b modulo 2^64 on uint values (schoolbook product of the byte limbs).
U64Mul(a, b) ==
    LET c1 == a[1] * b[1]
        c2 == a[1] * b[2] + a[2] * b[1] + (c1 \div 256)
        c3 == a[1] * b[3] + a[2] * b[2] + a[3] * b[1] + (c2 \div 256)
        c4 == a[1] * b[4] + a[2] * b[3] + a[3] * b[2] + a[4] * b[1] + (c3 \div 256)
        c5 == a[1] * b[5] + a[2] * b[4] + a[3] * b[3] + a[4] * b[2]
              + a[5] * b[1] + (c4 \div 256)
        c6 == a[1] * b[6] + a[2] * b[5] + a[3] * b[4] + a[4] * b[3]
              + a[5] * b[2] + a[6] * b[1] + (c5 \div 256)
        c7 == a[1] * b[7] + a[2] * b[6] + a[3] * b[5] + a[4] * b[4]
              + a[5] * b[3] + a[6] * b[2] + a[7] * b[1] + (c6 \div 256)
        c8 == a[1] * b[8] + a[2] * b[7] + a[3] * b[6] + a[4] * b[5]
              + a[5] * b[4] + a[6] * b[3] + a[7] * b[2] + a[8] * b[1] + (c7 \div 256)
    IN  << c1 % 256, c2 % 256, c3 % 256, c4 % 256,
           c5 % 256, c6 % 256, c7 % 256, c8 % 256 >>

\* a + b modulo 2^64 on uint values.
U64Add(a, b) ==
    LET c1 == a[1] + b[1]
        c2 == a[2] + b[2] + (c1 \div 256)
        c3 == a[3] + b[3] + (c2 \div 256)
        c4 == a[4] + b[4] + (c3 \div 256)
        c5 == a[5] + b[5] + (c4 \div 256)
        c6 == a[6] + b[6] + (c5 \div 256)
        c7 == a[7] + b[7] + (c6 \div 256)
        c8 == a[8] + b[8] + (c7 \div 256)
    IN  << c1 % 256, c2 % 256, c3 % 256, c4 % 256,
           c5 % 256, c6 % 256, c7 % 256, c8 % 256 >>

\* a < b on uint values: the highest byte that differs decides.
U64Lt(a, b) ==
    \E k \in 1 .. 8 : a[k] < b[k] /\ \A j \in (k + 1) .. 8 : a[j] = b[j]

\* The number a uint below 2^31 stands for.
U64Nat(a) == FromLe32(SubSeq(a, 1, 4))

\* The % of the source language on i32: the remainder takes the sign of the dividend.
Rem(a, n) == IF a >= 0 THEN a % n ELSE 0 - ((0 - a) % n)

\* The spacing of f32 values around an integer of magnitude a < 2^31.
F32Ulp(a) ==
    IF a < 16777216 THEN 1
    ELSE IF a < 33554432 THEN 2
    ELSE IF a < 67108864 THEN 4
    ELSE IF a < 134217728 THEN 8
    ELSE IF a < 268435456 THEN 16
    ELSE IF a < 536870912 THEN 32
    ELSE IF a < 1073741824 THEN 64
    ELSE 128

\* The f32 nearest to the integer n, ties to the even significand.
F32Round(n) ==
    LET a  == IF n < 0 THEN 0 - n ELSE n
        u  == F32Ulp(a)
        q  == a \div u
        r  == a % u
        up == (2 * r > u) \/ (2 * r = u /\ q % 2 = 1)
        m  == IF up THEN (q + 1) * u ELSE q * u
    IN  IF n < 0 THEN 0 - m ELSE m

\* ((24.0 * width as f32 + 31.0) / 32.0).floor(), every operation in f32.
\* The division by 32 is exact in f32 and \div rounds towards minus infinity.
RowFloor(width) == F32Round(F32Round(24 * F32Round(width)) + 31) \div 32

\* `x as u32` of an f32 holding the integer v.  A negative v is outside u32 and
\* the cast is undefined: the model admits the wrapped pattern and zero.
CastU32(v) == IF v >= 0 THEN {v} ELSE {v, 0}

\* The values `row floor as u32` can take for a width.
RowCast(width) == CastU32(RowFloor(width))

\* The data size both BmpDibHeader::new and read_image_data compute, for one
\* outcome q of the cast: q * 4 * height as u32.
DataSize(q, height) == MulWrap32(MulWrap32(q, 4), height)

----------------------------------------------------------------------------
(* Pixels and headers. *)

Pixel(r, g, b) == [r |-> r, g |-> g, b |-> b]

BLACK == Pixel(0, 0, 0)
AMBER == Pixel(17, 34, 51)

\* The pixel values the model passes to set_pixel.
PixelVals == {BLACK, AMBER}

\* Option values: None, or Some(v) holding v at index 1.
None == << >>
Some(v) == << v >>

BmpId_new == << 66, 77 >>

BmpHeader_new(width, height) ==
    [ file_size    |-> AddWrap32(MulWrap32(MulWrap32(width, height), 4), 54),
      creator1     |-> 0,
      creator2     |-> 0,
      pixel_offset |-> 54 ]

BmpDibHeader_new(width, height, q) ==
    [ header_size    |-> 40,
      width          |-> width,
      height         |-> height,
      num_planes     |-> 1,
      bits_per_pixel |-> 24,
      compress_type  |-> 0,
      data_size      |-> DataSize(q, height),
      hres           |-> 256,
      vres           |-> 256,
      num_colors     |-> 0,
      num_imp_colors |-> 0 ]

\* Image { .. } with the given parts.
MkImage(magic, header, dib, padding, data) ==
    [ magic      |-> magic,
      header     |-> header,
      dib_header |-> dib,
      width      |-> dib.width,
      height     |-> dib.height,
      padding    |-> padding,
      data       |-> data ]

\* The pixel store Image::new builds: one black pixel per step of
\* range(0, width * height), the product taken in i32.
NewData(width, height) ==
    LET n == MulWrap32(width, height)
    IN  [i \in 1 .. (IF n > 0 THEN n ELSE 0) |-> BLACK]

\* Image::new(width, height), q the outcome of the cast in BmpDibHeader::new.
Image_new(width, height, q) ==
    MkImage(BmpId_new, BmpHeader_new(width, height),
            BmpDibHeader_new(width, height, q),
            Rem(width, 4), Some(NewData(width, height)))

\* What Image::new sets apart from the pixel store, of which only the length
\* is kept.
NewShape(width, height, q) ==
    [ header     |-> BmpHeader_new(width, height),
      dib_header |-> BmpDibHeader_new(width, height, q),
      width      |-> width,
      height     |-> height,
      padding    |-> Rem(width, 4),
      pixels     |-> MulWrap32(width, height) ]

----------------------------------------------------------------------------
(* Pixel accessors. *)

\* The bounds test shared by set_pixel and get_pixel:
\* x < self.width as uint && y < self.height as uint.
InBounds(im, x, y) ==
    U64Lt(Uint(x), AsUint(im.width)) /\ U64Lt(Uint(y), AsUint(im.height))

\* y * (self.width as uint) + x, in uint.
PixelIndex(im, x, y) == U64Add(U64Mul(Uint(y), AsUint(im.width)), Uint(x))

\* Whether the vector holds an element at index i, a uint.
HasIndex(data, i) == U64Lt(i, Uint(Len(data)))

\* The element of the vector at index i, a uint the vector holds.
At(data, i) == data[U64Nat(i) + 1]

\* SetPixelOp with the index taken column-major: x * width + y.
SetPixelOpColumnMajor(im, x, y, val) ==
    IF InBounds(im, x, y)
    THEN IF im.data = None
         THEN [outcome |-> "NoData", image |-> im]
         ELSE IF HasIndex(im.data[1],
                          U64Add(U64Mul(Uint(x), AsUint(im.width)), Uint(y)))
              THEN [outcome |-> "ok",
                    image   |-> [im EXCEPT
                                   !.data[1][U64Nat(U64Add(U64Mul(Uint(x), AsUint(im.width)),
                                                           Uint(y))) + 1] = val]]
              ELSE [outcome |-> "VecIndex", image |-> im]
    ELSE [outcome |-> "IndexOutOfBounds", image |-> im]

\* Image::set_pixel: the failure it ends in, and the image afterwards.
SetPixelOp(im, x, y, val) ==
    IF InBounds(im, x, y)
    THEN IF im.data = None
         THEN [outcome |-> "NoData", image |-> im]
         ELSE IF HasIndex(im.data[1], PixelIndex(im, x, y))
              THEN [outcome |-> "ok",
                    image   |-> [im EXCEPT
                                   !.data[1][U64Nat(PixelIndex(im, x, y)) + 1] = val]]
              ELSE [outcome |-> "VecIndex", image |-> im]
    ELSE [outcome |-> "IndexOutOfBounds", image |-> im]

\* Image::get_pixel: the failure it ends in, or the pixel it returns.
GetPixelOp(im, x, y) ==
    IF InBounds(im, x, y)
    THEN IF im.data = None
         THEN [outcome |-> "NoData", pixel |-> None]
         ELSE IF HasIndex(im.data[1], PixelIndex(im, x, y))
              THEN [outcome |-> "ok",
                    pixel   |-> Some(At(im.data[1], PixelIndex(im, x, y)))]
              ELSE [outcome |-> "VecIndex", pixel |-> None]
    ELSE [outcome |-> "IndexOutOfBounds", pixel |-> None]

----------------------------------------------------------------------------
(* Encoding. *)

\* Image::write_header: File::create truncates the file, then the fields are
\* written in this order.
WriteHeader(im) ==
    im.magic
      \o Le32(im.header.file_size)
      \o Le16(im.header.creator1)
      \o Le16(im.header.creator2)
      \o Le32(im.header.pixel_offset)
      \o Le32(im.dib_header.header_size)
      \o Le32(im.dib_header.width)
      \o Le32(im.dib_header.height)
      \o Le16(im.dib_header.num_planes)
      \o Le16(im.dib_header.bits_per_pixel)
      \o Le32(im.dib_header.compress_type)
      \o Le32(im.dib_header.data_size)
      \o Le32(im.dib_header.hres)
      \o Le32(im.dib_header.vres)
      \o Le32(im.dib_header.num_colors)
      \o Le32(im.dib_header.num_imp_colors)

\* PixelBytes with the channels in the order r, g, b.
PixelBytesRGB(p) == << p.r, p.g, p.b >>

\* file.write([p.b, p.g, p.r])
PixelBytes(p) == << p.b, p.g, p.r >>

\* self.padding_data.slice(0, self.padding as uint): the slice exists when the
\* end is at most the four elements of padding_data.
PaddingBytes(padding) == [i \in 1 .. padding |-> 0]

\* The inner loop of save for row y from column x on; f is the file so far.
\* The index is (y * self.width + x) as uint: the i32 value, then the cast.
RECURSIVE SaveRow(_, _, _, _)
SaveRow(im, y, x, f) ==
    IF x >= im.width
    THEN [outcome |-> "ok", file |-> f]
    ELSE LET index == AsUint(AddWrap32(MulWrap32(y, im.width), x))
         IN  IF HasIndex(im.data[1], index)
             THEN SaveRow(im, y, x + 1, f \o PixelBytes(At(im.data[1], index)))
             ELSE [outcome |-> "VecIndex", file |-> f]

\* The outer loop of save from row y on.
RECURSIVE SaveRows(_, _, _)
SaveRows(im, y, f) ==
    IF y >= im.height
    THEN [outcome |-> "ok", file |-> f]
    ELSE LET row == SaveRow(im, y, 0, f)
         IN  IF row.outcome # "ok"
             THEN row
             ELSE IF im.padding >= 0 /\ im.padding <= 4
                  THEN SaveRows(im, y + 1, row.file \o PaddingBytes(im.padding))
                  ELSE [outcome |-> "SliceFail", file |-> row.file]

\* Image::save: the failure it ends in, and the file it leaves behind.  The
\* old contents of the file do not enter: write_header recreates the file and
\* the rows are appended to it.
SaveOp(im) ==
    IF im.data = None
    THEN [outcome |-> "NoData", file |-> WriteHeader(im)]
    ELSE SaveRows(im, 0, WriteHeader(im))

\* The bytes one row of save adds: width pixels of 3 bytes, then padding bytes.
RowBytes(im) == 3 * im.width + im.padding

\* The bytes the row loop of save adds over all rows.
SaveDataBytes(im) == im.height * RowBytes(im)

\* The bytes write_header writes.
HeaderBytes == 54

----------------------------------------------------------------------------
(* Decoding. *)

\* The n bytes of f from position pos on.
Bytes(f, pos, n) == SubSeq(f, pos + 1, pos + n)

\* File::eof(): true when the last read returned no byte.  A freshly opened
\* file has last_nread = -1, and after a read that succeeded it is positive.
Eof(last_nread) == last_nread = 0

\* The result of a failed or finished open.
OpenResult(o, image, nread, nseek) ==
    [outcome |-> o, image |-> image, nread |-> nread, nseek |-> nseek]

\* ReadPixel with the three bytes taken in the order r, g, b.
ReadPixelRGB(f, pos) == Pixel(f[pos + 1], f[pos + 2], f[pos + 3])

\* Image::read_pixel at position pos: three bytes, in the order b, g, r.
ReadPixel(f, pos) == Pixel(f[pos + 3], f[pos + 2], f[pos + 1])

\* The inner loop of read_image_data: n more pixels of a row from pos on.
\* read_byte fails at the end of the file; the bytes before it were read.
RECURSIVE ReadRow(_, _, _, _, _)
ReadRow(f, pos, n, data, nread) ==
    IF n <= 0
    THEN [outcome |-> "ok", pos |-> pos, data |-> data, nread |-> nread]
    ELSE IF Len(f) - pos >= 3
         THEN ReadRow(f, pos + 3, n - 1, Append(data, ReadPixel(f, pos)), nread + 3)
         ELSE [outcome |-> "IoFailure", pos |-> pos, data |-> data,
               nread   |-> nread + (IF Len(f) > pos THEN Len(f) - pos ELSE 0)]

\* The outer loop of read_image_data: rows more rows, each followed by
\* seek(padding, SeekCur), which fails when it would move before the start.
RECURSIVE ReadRows(_, _, _, _, _, _, _, _)
ReadRows(f, width, padding, rows, pos, data, nread, nseek) ==
    IF rows <= 0
    THEN OpenResult("ok", Some(data), nread, nseek)
    ELSE LET row == ReadRow(f, pos, width, data, nread)
         IN  IF row.outcome # "ok"
             THEN OpenResult(row.outcome, None, row.nread, nseek)
             ELSE IF row.pos + padding < 0
                  THEN OpenResult("IoFailure", None, row.nread, nseek + 1)
                  ELSE ReadRows(f, width, padding, rows - 1, row.pos + padding,
                                row.data, row.nread, nseek + 1)

\* The position after seek(offset as i64, SeekSet) for a u32 offset.  An offset
\* of 2^31 or more lies beyond every file of the model and is carried as the
\* largest position.
SeekSetPos(offset) == IF offset >= 0 THEN offset ELSE 2147483647

\* ReadImageData that looks for the rows right after the headers instead of
\* at the stored pixel offset.
ReadImageDataAt54(f, dh, offset, padding, q, nread) ==
    IF DataSize(q, dh.height) = dh.data_size
    THEN ReadRows(f, dh.width, padding, dh.height, 54, << >>, nread, 1)
    ELSE OpenResult("ok", None, nread, 0)

\* Image::read_image_data, q the outcome of the cast in the data size it
\* computes, nread the bytes read so far.
ReadImageData(f, dh, offset, padding, q, nread) ==
    IF DataSize(q, dh.height) = dh.data_size
    THEN ReadRows(f, dh.width, padding, dh.height, SeekSetPos(offset),
                  << >>, nread, 1)
    ELSE OpenResult("ok", None, nread, 0)

\* Image::read_bmp_header on the 12 bytes from position 2.
ReadBmpHeader(f) ==
    [ file_size    |-> FromLe32(Bytes(f, 2, 4)),
      creator1     |-> FromLe16(Bytes(f, 6, 2)),
      creator2     |-> FromLe16(Bytes(f, 8, 2)),
      pixel_offset |-> FromLe32(Bytes(f, 10, 4)) ]

\* Image::read_bmp_dib_header on the 40 bytes from position 14.
ReadBmpDibHeader(f) ==
    [ header_size    |-> FromLe32(Bytes(f, 14, 4)),
      width          |-> FromLe32(Bytes(f, 18, 4)),
      height         |-> FromLe32(Bytes(f, 22, 4)),
      num_planes     |-> FromLe16(Bytes(f, 26, 2)),
      bits_per_pixel |-> FromLe16(Bytes(f, 28, 2)),
      compress_type  |-> FromLe32(Bytes(f, 30, 4)),
      data_size      |-> FromLe32(Bytes(f, 34, 4)),
      hres           |-> FromLe32(Bytes(f, 38, 4)),
      vres           |-> FromLe32(Bytes(f, 42, 4)),
      num_colors     |-> FromLe32(Bytes(f, 46, 4)),
      num_imp_colors |-> FromLe32(Bytes(f, 50, 4)) ]

\* The part of Image::open after the three headers were read.
OpenBody(f, id, header, dib, q) ==
    LET padding == Rem(dib.width, 4)
        rd      == ReadImageData(f, dib, header.pixel_offset, padding, q, 54)
    IN  IF rd.outcome # "ok"
        THEN rd
        ELSE OpenResult("ok", Some(MkImage(id, header, dib, padding, rd.image)),
                        rd.nread, rd.nseek)

\* OpenOp that tests only the first identifier byte.
OpenOpFirstByte(f, q) ==
    IF Len(f) < 2 THEN OpenResult("IoFailure", None, Len(f), 0)
    ELSE IF f[1] # 66 THEN OpenResult("NotABitmap", None, 2, 0)
    ELSE IF Len(f) < 54 THEN OpenResult("IoFailure", None, Len(f), 0)
    ELSE OpenBody(f, Bytes(f, 0, 2), ReadBmpHeader(f), ReadBmpDibHeader(f), q)

\* Image::open on a file f that exists, q the outcome of the cast in
\* read_image_data.  Every read goes through access(), which fails the call on
\* an error, so a header that the file ends in is an IoFailure after Len(f)
\* bytes; the None arms of the read_bmp_* functions need eof() to hold.
OpenOp(f, q) ==
    IF Eof(0 - 1) THEN OpenResult("NotABitmap", None, 0, 0)
    ELSE IF Len(f) < 2 THEN OpenResult("IoFailure", None, Len(f), 0)
    ELSE IF f[1] # 66 \/ f[2] # 77 THEN OpenResult("NotABitmap", None, 2, 0)
    ELSE IF Eof(1) THEN OpenResult("BadHeader", None, 2, 0)
    ELSE IF Len(f) < 14 THEN OpenResult("IoFailure", None, Len(f), 0)
    ELSE IF Eof(1) THEN OpenResult("BadHeader", None, 14, 0)
    ELSE IF Len(f) < 54 THEN OpenResult("IoFailure", None, Len(f), 0)
    ELSE OpenBody(f, Bytes(f, 0, 2), ReadBmpHeader(f), ReadBmpDibHeader(f), q)

\* The outcomes of the cast in read_image_data for the width stored in f; a
\* file too short to hold a width never reaches the cast.
OpenCasts(f) == IF Len(f) >= 54 THEN RowCast(ReadBmpDibHeader(f).width) ELSE {0}

----------------------------------------------------------------------------
(* The calls of a program that holds one image and uses one file. *)

Call(op, x, y, val) == [op |-> op, x |-> x, y |-> y, val |-> val]

NoIo == [nread |-> 0, nseek |-> 0]

\* The grid a caller expects after new(width, height): black everywhere.
NewShadow(width, height) ==
    [ width  |-> width,
      height |-> height,
      px     |-> [c \in (0 .. width - 1) \X (0 .. height - 1) |-> BLACK] ]

Init ==
    /\ img = None
    /\ disk = << >>
    /\ outcome = "ok"
    /\ ret = None
    /\ io = NoIo
    /\ lastop = Call("start", 0, 0, None)
    /\ shadow = None
    /\ saved = None
    /\ sz = None

\* let img = Image::new(width, height).  Vec::with_capacity fails the call when
\* (width * height) as uint is the cast of a negative product.
New(width, height) ==
    /\ width * height <= MaxPixels
    /\ IF MulWrap32(width, height) < 0
       THEN /\ outcome' = "CapacityOverflow"
            /\ UNCHANGED <<img, shadow>>
       ELSE /\ \E q \in RowCast(width) :
                  img' = Some(Image_new(width, height, q))
            /\ outcome' = "ok"
            /\ shadow' = Some(NewShadow(width, height))
    /\ ret' = None
    /\ lastop' = Call("new", width, height, None)
    /\ io' = NoIo
    /\ UNCHANGED <<disk, saved, sz>>

\* img.set_pixel(x, y, val)
SetPixel(x, y, val) ==
    /\ img # None
    /\ LET r == SetPixelOp(img[1], x, y, val)
       IN  /\ img' = Some(r.image)
           /\ outcome' = r.outcome
           /\ shadow' = IF r.outcome = "ok" /\ shadow # None
                        THEN Some([shadow[1] EXCEPT !.px[<<x, y>>] = val])
                        ELSE shadow
    /\ ret' = None
    /\ lastop' = Call("set_pixel", x, y, Some(val))
    /\ io' = NoIo
    /\ UNCHANGED <<disk, saved, sz>>

\* img.get_pixel(x, y)
GetPixel(x, y) ==
    /\ img # None
    /\ LET r == GetPixelOp(img[1], x, y)
       IN  /\ outcome' = r.outcome
           /\ ret' = r.pixel
    /\ lastop' = Call("get_pixel", x, y, None)
    /\ io' = NoIo
    /\ UNCHANGED <<img, disk, shadow, saved, sz>>

\* img.save(path)
Save ==
    /\ img # None
    /\ LET r == SaveOp(img[1])
       IN  /\ disk' = r.file
           /\ outcome' = r.outcome
           /\ saved' = IF r.outcome = "ok" THEN img ELSE None
    /\ ret' = None
    /\ lastop' = Call("save", 0, 0, None)
    /\ io' = NoIo
    /\ UNCHANGED <<img, shadow, sz>>

\* let img = Image::open(path); a failed open leaves the caller with what it had.
Open ==
    /\ \E q \in OpenCasts(disk) :
          LET r == OpenOp(disk, q)
          IN  /\ outcome' = r.outcome
              /\ ret' = r.image
              /\ io' = [nread |-> r.nread, nseek |-> r.nseek]
              /\ img' = IF r.outcome = "ok" THEN r.image ELSE img
              /\ shadow' = IF r.outcome = "ok" THEN None ELSE shadow
    /\ lastop' = Call("open", 0, 0, None)
    /\ UNCHANGED <<disk, saved, sz>>

\* A program that builds images, writes them and reads them back.
Next ==
    \/ \E width \in 1 .. MaxW, height \in 1 .. MaxH : New(width, height)
    \/ \E x \in 0 .. MaxW - 1, y \in 0 .. MaxH - 1, val \in PixelVals :
          SetPixel(x, y, val)
    \/ Save
    \/ Open

Spec == Init /\ [][Next]_vars

\* A program that builds images and uses the pixel accessors on them.
NextMem ==
    \/ \E width \in 1 .. MaxW, height \in 1 .. MaxH : New(width, height)
    \/ \E x \in 0 .. MaxW, y \in 0 .. MaxH, val \in PixelVals : SetPixel(x, y, val)
    \/ \E x \in 0 .. MaxW, y \in 0 .. MaxH : GetPixel(x, y)

SpecMem == Init /\ [][NextMem]_vars

----------------------------------------------------------------------------
(* A program that opens a file it did not write and uses the accessors on    *)
(* the image it gets.  The files are 54-byte headers with the stored width,  *)
(* height, data size and pixel offset varied, followed by a body of bytes    *)
(* that differ from their neighbours, and cuts and corruptions of them.      *)

\* The byte the model puts at position pos of a file body.
BodyByte(pos) == (7 * pos + 1) % 256

\* The widths and heights stored in the headers, the large widths among them
\* being those at which f32 no longer holds 24 * width + 31.
HdrWidths == {0 - 2, 0 - 1, 0, 1, 2, 699052}
HdrHeights == {0 - 1, 0, 1, 2}
HdrOffsets == {0, 54, 57}
BodyLens == {0, 7, 19}

\* The row stride as the format defines it, in integer arithmetic:
\* floor((24 * width + 31) / 32) * 4.  This is not what the codec computes
\* (RowFloor is); it is the reference the codec's value is compared with, and
\* a data size a file written by another encoder stores.
Stride(width) == ((24 * width + 31) \div 32) * 4

\* The data sizes stored for a width and height: what the decoder can compute,
\* the integer row stride times the height, and two that are neither.
HdrDataSizes(width, height) ==
    {DataSize(q, height) : q \in RowCast(width)}
      \cup {MulWrap32(Stride(width), height), 0, 5}

\* A header whose fields are not the ones this codec writes, so that a field
\* taken from the wrong place or replaced by a default shows.
HdrFile(magic, width, height, data_size, offset, bodylen) ==
    LET head == magic
                  \o Le32(70000) \o Le16(258) \o Le16(772) \o Le32(offset)
                  \o Le32(41) \o Le32(width) \o Le32(height)
                  \o Le16(2) \o Le16(32) \o Le32(3) \o Le32(data_size)
                  \o Le32(0 - 5) \o Le32(2835) \o Le32(9) \o Le32(8)
    IN  head \o [i \in 1 .. bodylen |-> BodyByte(53 + i)]

GoodFiles ==
    UNION { { HdrFile(BmpId_new, wh[1], wh[2], d, o, n) :
                d \in HdrDataSizes(wh[1], wh[2]), o \in HdrOffsets, n \in BodyLens } :
            wh \in HdrWidths \X HdrHeights }

\* Files that do not start with 'B', 'M'.
BadMagicFiles ==
    { HdrFile(m, 2, 2, 16, 54, n) :
        m \in {<<66, 66>>, <<0, 77>>, <<77, 66>>}, n \in {0, 19} }
      \cup {<<0, 77>>, <<66, 0>>, <<66, 66, 1>>}

\* Files that end inside the headers.
CutFiles ==
    { SubSeq(HdrFile(BmpId_new, 2, 2, 16, 54, 0), 1, n) :
        n \in {0, 1, 2, 3, 13, 14, 15, 53} }

Files == GoodFiles \cup BadMagicFiles \cup CutFiles

InitFile ==
    /\ img = None
    /\ disk \in Files
    /\ outcome = "ok"
    /\ ret = None
    /\ io = NoIo
    /\ lastop = Call("start", 0, 0, None)
    /\ shadow = None
    /\ saved = None
    /\ sz = None

NextFile ==
    \/ Open
    \/ \E x \in 0 .. MaxW, y \in 0 .. MaxH, val \in PixelVals : SetPixel(x, y, val)
    \/ \E x \in 0 .. MaxW, y \in 0 .. MaxH : GetPixel(x, y)

SpecFile == InitFile /\ [][NextFile]_vars

----------------------------------------------------------------------------
(* The sizes of new followed by save, for dimensions whose pixel store and   *)
(* file are too large to write out: of the store only the length is kept, of *)
(* the file only the count of bytes written.                                 *)

\* Widths at which f32 no longer holds 24 * width + 31, and one beside them.
LargeWidths == {699052, 699053, 1000000}

SizeWidths == (1 .. MaxSizeW) \cup LargeWidths

\* let img = Image::new(width, height)
SizeNew(width, height) ==
    /\ \E q \in RowCast(width) :
          sz' = Some([image |-> NewShape(width, height, q), written |-> None])
    /\ UNCHANGED <<img, disk, outcome, ret, io, lastop, shadow, saved>>

\* img.save(path): write_header writes HeaderBytes bytes, every row adds
\* RowBytes bytes.
SizeSave ==
    /\ sz # None
    /\ sz[1].written = None
    /\ sz' = Some([sz[1] EXCEPT
                     !.written = Some(HeaderBytes + SaveDataBytes(sz[1].image))])
    /\ UNCHANGED <<img, disk, outcome, ret, io, lastop, shadow, saved>>

NextSize ==
    \/ \E width \in SizeWidths, height \in 1 .. MaxSizeH : SizeNew(width, height)
    \/ SizeSave

SpecSize == Init /\ [][NextSize]_vars

----------------------------------------------------------------------------
(* Properties. *)

\* The coordinates of the grid of an image with non-negative dimensions.
Grid(im) == (0 .. im.width - 1) \X (0 .. im.height - 1)

\* C1: round trip.  When open has read the file that save wrote for an image,
\* it returns an image whose get_pixel agrees with the saved image at every
\* coordinate of the grid, and whose width, height, bits_per_pixel = 24,
\* compress_type = 0 and num_planes = 1 are those of the saved image.
C1_RoundTrip ==
    (lastop.op = "open" /\ saved # None) =>
        /\ outcome = "ok"
        /\ ret # None
        /\ LET a == ret[1]
               b == saved[1]
           IN  /\ \A c \in Grid(b) :
                     /\ GetPixelOp(b, c[1], c[2]).outcome = "ok"
                     /\ GetPixelOp(a, c[1], c[2]) = GetPixelOp(b, c[1], c[2])
               /\ a.width = b.width /\ a.height = b.height
               /\ a.dib_header.width = b.dib_header.width
               /\ a.dib_header.height = b.dib_header.height
               /\ a.dib_header.bits_per_pixel = 24
               /\ b.dib_header.bits_per_pixel = 24
               /\ a.dib_header.compress_type = 0
               /\ b.dib_header.compress_type = 0
               /\ a.dib_header.num_planes = 1
               /\ b.dib_header.num_planes = 1

\* A 2 x 2 image holding both pixel values was saved and read back.
C1_Witness ==
    /\ lastop.op = "open"
    /\ saved # None
    /\ outcome = "ok"
    /\ saved[1].width = 2 /\ saved[1].height = 2
    /\ saved[1].data = Some(<<AMBER, BLACK, BLACK, AMBER>>)


\* C8: save on an image with a pixel store and positive dimensions ends
\* normally and leaves a file that is exactly: the 54 header bytes in the fixed
\* little-endian order, then the rows y = 0 .. height - 1, the pixel (x, y) at
\* offset 54 + y * (3 * width + padding) + 3 * x as b, g, r, and padding zero
\* bytes after each row; whatever the file held before.
C8_SaveLayout ==
    (lastop.op = "save" /\ img[1].data # None /\ img[1].width > 0 /\ img[1].height > 0) =>
        LET im  == img[1]
            row == 3 * im.width + im.padding
        IN  /\ outcome = "ok"
            /\ Len(disk) = 54 + im.height * row
            /\ disk[1] = 66 /\ disk[2] = 77
            /\ FromLe32(Bytes(disk, 2, 4)) = im.header.file_size
            /\ FromLe16(Bytes(disk, 6, 2)) = im.header.creator1
            /\ FromLe16(Bytes(disk, 8, 2)) = im.header.creator2
            /\ FromLe32(Bytes(disk, 10, 4)) = im.header.pixel_offset
            /\ FromLe32(Bytes(disk, 14, 4)) = im.dib_header.header_size
            /\ FromLe32(Bytes(disk, 18, 4)) = im.dib_header.width
            /\ FromLe32(Bytes(disk, 22, 4)) = im.dib_header.height
            /\ FromLe16(Bytes(disk, 26, 2)) = im.dib_header.num_planes
            /\ FromLe16(Bytes(disk, 28, 2)) = im.dib_header.bits_per_pixel
            /\ FromLe32(Bytes(disk, 30, 4)) = im.dib_header.compress_type
            /\ FromLe32(Bytes(disk, 34, 4)) = im.dib_header.data_size
            /\ FromLe32(Bytes(disk, 38, 4)) = im.dib_header.hres
            /\ FromLe32(Bytes(disk, 42, 4)) = im.dib_header.vres
            /\ FromLe32(Bytes(disk, 46, 4)) = im.dib_header.num_colors
            /\ FromLe32(Bytes(disk, 50, 4)) = im.dib_header.num_imp_colors
            /\ \A c \in Grid(im) :
                  LET o == 54 + c[2] * row + 3 * c[1]
                      p == GetPixelOp(im, c[1], c[2]).pixel
                  IN  p = Some(Pixel(disk[o + 3], disk[o + 2], disk[o + 1]))
            /\ \A y \in 0 .. im.height - 1 : \A k \in 1 .. im.padding :
                  disk[54 + y * row + 3 * im.width + k] = 0

\* A 3 x 1 image (three padding bytes) with both pixel values was saved.
C8_Witness ==
    /\ lastop.op = "save"
    /\ outcome = "ok"
    /\ img[1].width = 3 /\ img[1].height = 1
    /\ img[1].data = Some(<<BLACK, AMBER, BLACK>>)
    /\ Len(disk) = 66

\* C5: after new(width, height) and any sequence of set_pixel calls, inside
\* the grid or not, the pixel store has width * height elements, the width,
\* height, padding and headers are those new set, a set_pixel inside the grid
\* succeeds, and get_pixel returns at every coordinate the value of the last
\* successful set_pixel there, or black.
C5_StoreStable ==
    shadow # None =>
        LET im == img[1]
            s  == shadow[1]
        IN  /\ s.width > 0 /\ s.height > 0
            /\ im.data # None
            /\ Len(im.data[1]) = s.width * s.height
            /\ im.width = s.width /\ im.height = s.height
            /\ im.padding = s.width % 4
            /\ im.magic = << 66, 77 >>
            /\ im.header = BmpHeader_new(s.width, s.height)
            /\ \E q \in RowCast(s.width) :
                  im.dib_header = BmpDibHeader_new(s.width, s.height, q)
            /\ \A c \in Grid(im) :
                  GetPixelOp(im, c[1], c[2]) = [outcome |-> "ok", pixel |-> Some(s.px[c])]
            /\ (lastop.op = "get_pixel" /\ <<lastop.x, lastop.y>> \in Grid(im)) =>
                  (outcome = "ok" /\ ret = Some(s.px[<<lastop.x, lastop.y>>]))
            /\ (lastop.op = "set_pixel" /\ <<lastop.x, lastop.y>> \in Grid(im)) =>
                  outcome = "ok"

\* A 2 x 2 image after a set_pixel outside the grid failed, with a pixel that
\* was set to AMBER and one that was set and then set back to BLACK.
C5_Witness ==
    /\ shadow # None
    /\ lastop.op = "set_pixel"
    /\ outcome = "IndexOutOfBounds"
    /\ img[1].width = 2 /\ img[1].height = 2
    /\ img[1].data = Some(<<BLACK, AMBER, AMBER, BLACK>>)


\* The header fields stored in a file of at least 54 bytes.
StoredWidth == FromLe32(Bytes(disk, 18, 4))
StoredHeight == FromLe32(Bytes(disk, 22, 4))
StoredDataSize == FromLe32(Bytes(disk, 34, 4))
StoredOffset == FromLe32(Bytes(disk, 10, 4))

\* The file has the two identifier bytes and they are 'B', 'M'.
ValidId == Len(disk) >= 2 /\ disk[1] = 66 /\ disk[2] = 77

\* The image holds the header fields of a file built by HdrFile, each from its
\* own place in the file, and the width, height and padding that follow.
HeadersFromFile(im) ==
    /\ im.magic = << 66, 77 >>
    /\ im.header = [ file_size |-> 70000, creator1 |-> 258, creator2 |-> 772,
                     pixel_offset |-> StoredOffset ]
    /\ im.dib_header =
          [ header_size |-> 41, width |-> StoredWidth, height |-> StoredHeight,
            num_planes |-> 2, bits_per_pixel |-> 32, compress_type |-> 3,
            data_size |-> StoredDataSize, hres |-> 0 - 5, vres |-> 2835,
            num_colors |-> 9, num_imp_colors |-> 8 ]
    /\ im.width = StoredWidth
    /\ im.height = StoredHeight
    /\ im.padding = Rem(StoredWidth, 4)

\* C2: on every image, set_pixel and get_pixel at a coordinate with
\* x >= width or y >= height end in IndexOutOfBounds; at a coordinate with
\* x < width and y < height on an image with a pixel store they do not; and a
\* set_pixel that fails leaves the image, its pixel store included, as it was.
\* The width and height are the i32 fields of the image, the coordinates the
\* numbers the caller passed.
C2_Bounds ==
    /\ [](lastop.op \in {"set_pixel", "get_pixel"} =>
            LET im      == img[1]
                outside == lastop.x >= im.width \/ lastop.y >= im.height
            IN  /\ outside => outcome = "IndexOutOfBounds"
                /\ (~outside /\ im.data # None) => outcome # "IndexOutOfBounds")
    /\ [][(lastop'.op = "set_pixel" /\ outcome' # "ok") => img' = img]_vars

\* C3: open on a file with the 'B', 'M' identifier and complete headers whose
\* stored data size differs from floor((24 * width + 31) / 32) * 4 * height,
\* computed in integers from the stored width and height and taken modulo 2^32
\* as the stored field is, returns an image, with the headers, width, height
\* and padding of the file and no pixel store, after reading the 54 header
\* bytes only and without a seek.
C3_Mismatch ==
    ( /\ lastop.op = "open"
      /\ ValidId
      /\ Len(disk) >= 54
      /\ StoredDataSize # MulWrap32(Stride(StoredWidth), StoredHeight) ) =>
        /\ outcome = "ok"
        /\ ret # None
        /\ img = ret
        /\ ret[1].data = None
        /\ HeadersFromFile(ret[1])
        /\ io = [nread |-> 54, nseek |-> 0]

\* C4: open on a file whose first two bytes are not 'B', 'M' ends in
\* NotABitmap, returns no image, and has read the two identifier bytes and
\* nothing else.
C4_NotABitmap ==
    (lastop.op = "open" /\ Len(disk) >= 2 /\ ~ValidId) =>
        /\ outcome = "NotABitmap"
        /\ ret = None
        /\ img = None
        /\ io = [nread |-> 2, nseek |-> 0]

\* A file of 73 bytes starting 'B', 'B' was opened.
C4_Witness ==
    /\ lastop.op = "open"
    /\ outcome = "NotABitmap"
    /\ Len(disk) = 73
    /\ disk[1] = 66 /\ disk[2] = 66

\* The file holds every byte of the rows of a width x height image from the
\* stored pixel offset on.
RowsInFile ==
    Len(disk) >= StoredOffset
                   + (StoredHeight - 1) * (3 * StoredWidth + Rem(StoredWidth, 4))
                   + 3 * StoredWidth

\* C9: when open finds the stored data size to match, the image it returns
\* holds the header fields of the file, and get_pixel(x, y) is the b, g, r at
\* the stored pixel offset + y * (3 * width + padding) + 3 * x, rows in file
\* order and padding skipped; with positive dimensions and the rows in the file
\* a matching data size makes open return such an image.
C9_Decode ==
    /\ (lastop.op = "open" /\ outcome = "ok" /\ ret[1].data # None) =>
          LET im  == ret[1]
              row == 3 * im.width + im.padding
          IN  /\ img = ret
              /\ HeadersFromFile(im)
              /\ \A c \in Grid(im) :
                    LET o == StoredOffset + c[2] * row + 3 * c[1]
                    IN  GetPixelOp(im, c[1], c[2]) =
                           [ outcome |-> "ok",
                             pixel   |-> Some(Pixel(disk[o + 3], disk[o + 2], disk[o + 1])) ]
    /\ ( /\ lastop.op = "open"
         /\ ValidId
         /\ Len(disk) >= 54
         /\ StoredWidth > 0 /\ StoredHeight > 0
         /\ \A q \in RowCast(StoredWidth) :
               DataSize(q, StoredHeight) = StoredDataSize
         /\ RowsInFile ) =>
          (outcome = "ok" /\ ret[1].data # None)

\* A 2 x 2 image was read from pixel offset 57.
C9_Witness ==
    /\ lastop.op = "open"
    /\ outcome = "ok"
    /\ ret[1].data # None
    /\ StoredWidth = 2 /\ StoredHeight = 2 /\ StoredOffset = 57
    /\ Len(ret[1].data[1]) = 4

\* C10: in an image that open returned with a pixel store, every coordinate
\* that passes the bounds test of the accessors indexes an element of the
\* store, so no access that passes the test fails on the store.
C10_StoreCoversBounds ==
    /\ (img # None /\ img[1].data # None) =>
          \A x \in 0 .. MaxW, y \in 0 .. MaxH :
              InBounds(img[1], x, y) =>
                  HasIndex(img[1].data[1], PixelIndex(img[1], x, y))
    /\ outcome # "VecIndex"


\* C6: the file_size field that new sets and save writes at offset 2 is the
\* number of bytes of the file save produces: the 54 header bytes plus every
\* pixel and padding byte.
C6_FileSize ==
    (sz # None /\ sz[1].written # None) =>
        sz[1].image.header.file_size = sz[1].written[1]

\* C7: the padding new stores is (4 - (width * 3) % 4) % 4, a row of save has
\* width * 3 + padding bytes, a multiple of 4 equal to the row stride
\* floor((24 * width + 31) / 32) * 4, the data_size field is that stride times
\* the height, and save writes data_size bytes of pixel data.
C7_Padding ==
    sz # None =>
        LET s == sz[1].image
        IN  /\ s.padding = (4 - ((s.width * 3) % 4)) % 4
            /\ RowBytes(s) = s.width * 3 + s.padding
            /\ RowBytes(s) % 4 = 0
            /\ RowBytes(s) = Stride(s.width)
            /\ s.dib_header.data_size = Stride(s.width) * s.height
            /\ sz[1].written # None =>
                  sz[1].written[1] - HeaderBytes = s.dib_header.data_size

====
